---------------------------- MODULE Spec2Model ----------------------------
(***************************************************************************)
(* A model of SweepPulse's numeric pipeline (src/sweep.py): frequency      *)
(* reconstruction, sweep extraction / averaging / background subtraction,  *)
(* detector-delay correction, boxcar smoothing, stitching.                 *)
(*                                                                         *)
(* Numbers.  The program computes in IEEE doubles and its tests compare    *)
(* within TOL = 1e-6.  The model computes exactly, in rationals            *)
(* [num, den] (den > 0, lowest terms); den = 0 stands for the values numpy *)
(* produces on a division by zero: 0/0 = nan, +-1/0 = +-inf.               *)
(*                                                                         *)
(* Arrays.  A numpy array is [ndim, ncols, data]: for ndim = 1 data is the *)
(* sequence of samples (ncols = 0, unused); for ndim = 2 data is the       *)
(* sequence of rows, each a sequence of ncols samples, so shape[0] is      *)
(* Len(data) in both cases.  A raised exception is [ndim |-> 0, exc].      *)
(*                                                                         *)
(* Options.  argparse (nargs=1) hands an option over as a one-element list *)
(* or None; the model keeps the list: <<>> when the option is absent,      *)
(* <<v>> when it is given, and the truth test `if args.x:' is x # <<>>.    *)
(***************************************************************************)
EXTENDS Integers, Sequences, FiniteSets, TLC

VARIABLES
    pc,         \* position of the run in the pipeline
    args,       \* the parsed options (argparse object)
    pts,        \* number of points in a single sweep
    center_freq, \* the band centre(s): a float or an array
    sweep_up,   \* the frequency increases along the foreground sweep
    bdwth,      \* sweep bandwidth
    inten,      \* the intensity array as the pipeline holds it now
    freq,       \* the frequency array as the pipeline holds it now
    in_inten,   \* the intensity array the stage started from
    in_freq,    \* the frequency array the stage started from
    exc,        \* the exception that ended the run, "" when none
    win_verified, \* what box_win returned, 0 before it is called
    typed,      \* what the user answers when interactive() asks
    sweep_count, \* load_data's sweep_num: number of full sweeps, 0 before it is set
    stages      \* the processing steps applied to the data so far, in order

vars == <<pc, args, pts, center_freq, sweep_up, bdwth, inten, freq,
          in_inten, in_freq, exc, win_verified, typed, sweep_count, stages>>

\* what a run is started with and never assigns afterwards
setup == <<args, pts, center_freq, sweep_up, bdwth, in_inten, in_freq>>

-----------------------------------------------------------------------------
(* Bounds of the model *)

MaxSweeps == 3      \* full sweeps in an intensity array: 1..MaxSweeps
MaxPts == 4         \* points per sweep: 1..MaxPts
MaxBands == 3       \* columns of a 2-D array: 1..MaxBands
MaxExtra == 1       \* samples of a trailing partial sweep: 0..MaxExtra
MaxWin == 30        \* windows handed to box_win alone: -MaxWin..MaxWin
MaxPeak == 12       \* height of the one peak or dip on a baseline: -MaxPeak..MaxPeak
MaxLo == 4          \* samples of an LO trace: 1..MaxLo

\* the order of the spline db_spline fits, UnivariateSpline(x, y, w=weight, k=5)
SplineOrder == 5

-----------------------------------------------------------------------------
(* Exact arithmetic *)

Abs(n) == IF n < 0 THEN -n ELSE n

Sign(n) == IF n < 0 THEN -1 ELSE IF n = 0 THEN 0 ELSE 1

Min(a, b) == IF a < b THEN a ELSE b

Max(a, b) == IF a < b THEN b ELSE a

RECURSIVE GCD(_, _)
GCD(a, b) == IF b = 0 THEN a ELSE GCD(b, a % b)

\* n/d in lowest terms; n/0 is nan (n = 0) or a signed infinity
Rat(n, d) ==
    IF d = 0 THEN [num |-> Sign(n), den |-> 0]
    ELSE LET g == GCD(Abs(n), Abs(d))
         IN  [num |-> Sign(d) * (n \div g), den |-> Abs(d) \div g]

R(k) == [num |-> k, den |-> 1]

NaN == [num |-> 0, den |-> 0]

IsFinite(a) == a.den # 0

RNeg(a) == [num |-> -a.num, den |-> a.den]

RAdd(a, b) ==
    IF IsFinite(a) /\ IsFinite(b)
    THEN Rat(a.num * b.den + b.num * a.den, a.den * b.den)
    ELSE IF a = b THEN a
    ELSE IF IsFinite(a) THEN b
    ELSE IF IsFinite(b) THEN a
    ELSE NaN

RSub(a, b) == RAdd(a, RNeg(b))

RMul(a, b) ==
    IF IsFinite(a) /\ IsFinite(b)
    THEN Rat(a.num * b.num, a.den * b.den)
    ELSE [num |-> Sign(a.num) * Sign(b.num), den |-> 0]

RDiv(a, b) ==
    IF IsFinite(a) /\ IsFinite(b)
    THEN Rat(a.num * b.den, a.den * b.num)
    ELSE IF IsFinite(b) THEN [num |-> a.num * Sign(b.num), den |-> 0]
    ELSE IF IsFinite(a) THEN R(0)
    ELSE NaN

\* a < b as numpy compares: every comparison with nan is False
RLt(a, b) ==
    IF IsFinite(a) /\ IsFinite(b) THEN a.num * b.den < b.num * a.den
    ELSE /\ a # NaN
         /\ b # NaN
         /\ a # b
         /\ \/ ~IsFinite(a) /\ a.num < 0
            \/ ~IsFinite(b) /\ b.num > 0

-----------------------------------------------------------------------------
(* numpy arrays *)

Arr1(d) == [ndim |-> 1, ncols |-> 0, data |-> d]

Arr2(d, c) == [ndim |-> 2, ncols |-> c, data |-> d]

Raised(kind) == [ndim |-> 0, exc |-> kind]

IsRaised(a) == a.ndim = 0

Shape0(a) == Len(a.data)

\* a[start:stop] of Python, for a start and stop that are both given
SliceBound(k, n) == IF k < 0 THEN Max(k + n, 0) ELSE Min(k, n)

PySlice(s, start, stop) ==
    LET lo == SliceBound(start, Len(s))
        hi == SliceBound(stop, Len(s))
    IN  IF hi <= lo THEN << >> ELSE SubSeq(s, lo + 1, hi)

\* a[start:stop] (1-D) and a[start:stop, :] (2-D)
Rows(a, start, stop) == [a EXCEPT !.data = PySlice(a.data, start, stop)]

Reverse(s) == [i \in 1..Len(s) |-> s[Len(s) + 1 - i]]

flipud(a) == [a EXCEPT !.data = Reverse(a.data)]

\* np.zeros(n) and np.zeros((n, c))
Zeros(ndim, n, c) ==
    IF ndim = 1 THEN Arr1([i \in 1..n |-> R(0)])
    ELSE Arr2([i \in 1..n |-> [j \in 1..c |-> R(0)]], c)

\* x + y or x - y
Binary(op, x, y) == IF op = "+" THEN RAdd(x, y) ELSE RSub(x, y)

\* array + array or array - array, for two arrays of the same ndim and ncols,
\* with numpy's broadcasting along axis 0 (a length of 1 stretches)
Elementwise(op, a, b) ==
    LET la == Shape0(a)
        lb == Shape0(b)
        n  == IF la = 1 THEN lb ELSE la
        ra(i) == IF la = 1 THEN a.data[1] ELSE a.data[i]
        rb(i) == IF lb = 1 THEN b.data[1] ELSE b.data[i]
    IN  IF la # lb /\ la # 1 /\ lb # 1 THEN Raised("ValueError")
        ELSE IF a.ndim = 1
        THEN Arr1([i \in 1..n |-> Binary(op, ra(i), rb(i))])
        ELSE Arr2([i \in 1..n |-> [j \in 1..a.ncols |-> Binary(op, ra(i)[j], rb(i)[j])]],
                  a.ncols)

\* array / scalar
DivScalar(a, k) ==
    IF a.ndim = 1
    THEN Arr1([i \in 1..Shape0(a) |-> RDiv(a.data[i], R(k))])
    ELSE Arr2([i \in 1..Shape0(a) |->
                 [j \in 1..a.ncols |-> RDiv(a.data[i][j], R(k))]], a.ncols)

-----------------------------------------------------------------------------
(* Sweep extraction: extract_fg, flip, sub_bg, avg_inten *)

extract_fg(a, fg, p) ==
    IF a.ndim = 1
    THEN Rows(a, fg - 1, fg * p)
    ELSE Rows(a, (fg - 1) * p, fg * p)

flip(signal, ordinal) ==
    IF ordinal % 2 # 0 THEN signal ELSE flipud(signal)

\* sub_bg with the `+ 1' of the parity test forgotten
sub_bg_no_offset(a, fg, bg, p) ==
    LET inten_sig == Rows(a, (fg - 1) * p, fg * p)
        inten_bg  == Rows(a, (bg - 1) * p, bg * p)
    IN  Elementwise("-", inten_sig, flip(inten_bg, fg - bg))

sub_bg(a, fg, bg, p) ==
    LET inten_sig == Rows(a, (fg - 1) * p, fg * p)
        inten_bg  == Rows(a, (bg - 1) * p, bg * p)
    IN  Elementwise("-", inten_sig, flip(inten_bg, fg - bg + 1))

\* ordinal[ordinal % 2 == parity] for ordinal = 1..sweep_num, in order
match_parity(sweep_num, parity) ==
    SelectSeq([k \in 1..sweep_num |-> k], LAMBDA k : k % 2 = parity)

\* the loop `for i in match_parity: inten_ext += inten[(i-1)*pts:i*pts]'
RECURSIVE SumSweeps(_, _, _, _)
SumSweeps(a, p, ords, acc) ==
    IF ords = << >> THEN acc
    ELSE SumSweeps(a, p, Tail(ords),
                   Elementwise("+", acc,
                               Rows(a, (Head(ords) - 1) * p, Head(ords) * p)))

\* avg_inten dividing by the number of all sweeps
avg_inten_by_all(a, p, fg) ==
    LET parity    == fg % 2
        sweep_num == Shape0(a) \div p
        ords      == match_parity(sweep_num, parity)
        inten_ext == SumSweeps(a, p, ords, Zeros(a.ndim, p, a.ncols))
    IN  DivScalar(inten_ext, sweep_num)

avg_inten(a, p, fg) ==
    LET parity    == fg % 2
        sweep_num == Shape0(a) \div p
        ords      == match_parity(sweep_num, parity)
        inten_ext == SumSweeps(a, p, ords, Zeros(a.ndim, p, a.ncols))
    IN  DivScalar(inten_ext, Len(ords))

-----------------------------------------------------------------------------
(* Inputs of the extraction stage *)

\* the sample stored at row r (0-based), column c (0-based) of an input with
\* n rows and sweeps of p points
Sample(pattern, r, c, n, p) ==
    CASE pattern = "ramp"   -> r + n * c      \* np.arange(..).reshape(order='F')
      [] pattern = "zigzag" ->                \* 0..p-1, p-1..0, 0..p-1, ...
            (IF (r \div p) % 2 = 0 THEN r % p ELSE p - 1 - (r % p)) + c
      [] pattern = "square" -> r * r - 3 * c
      [] pattern = "flat"   -> 2

Patterns == {"ramp", "zigzag", "square", "flat"}

InputArray(pattern, ndim, n, c, p) ==
    IF ndim = 1
    THEN Arr1([i \in 1..n |-> R(Sample(pattern, i - 1, 0, n, p))])
    ELSE Arr2([i \in 1..n |-> [j \in 1..c |-> R(Sample(pattern, i - 1, j - 1, n, p))]],
              c)

Shapes == {[ndim |-> 1, ncols |-> 0]} \cup {[ndim |-> 2, ncols |-> c] : c \in 1..MaxBands}

\* -fg / -bg as given on the command line: any integer is parsed
Ordinals == -1..(MaxSweeps + 1)

OptionalOrdinal == {<< >>} \cup {<<k>> : k \in Ordinals}

NoArgs == [fg |-> << >>, bg |-> << >>, delay |-> << >>, box |-> << >>,
           lo |-> << >>, cf |-> << >>, bdwth |-> << >>,
           nobase |-> FALSE, spline |-> FALSE]

\* interactive() not called: nothing is asked, the answers do not matter
NoTyped == [sweep_num |-> 1, sweep_up |-> TRUE]

\* load_data: `if args.fg: fg = args.fg[0] else: fg = 1'
FgOf(a) == IF a.fg # << >> THEN a.fg[1] ELSE 1

\* the number of complete sweeps the stage's input holds
FullSweeps == Shape0(in_inten) \div pts

InitExtract ==
    /\ pc = "extract"
    /\ exc = ""
    /\ win_verified = 0
    /\ typed = NoTyped
    /\ sweep_count = 0
    /\ stages = << >>
    /\ pts \in 1..MaxPts
    /\ \E s \in 1..MaxSweeps, x \in 0..MaxExtra, sh \in Shapes, pat \in Patterns :
          /\ x < pts
          /\ in_inten = InputArray(pat, sh.ndim, s * pts + x, sh.ncols, pts)
    /\ inten = in_inten
    /\ \E f \in OptionalOrdinal, b \in OptionalOrdinal :
          args = [NoArgs EXCEPT !.fg = f, !.bg = b]
    /\ freq = Arr1(<< >>)
    /\ in_freq = freq
    /\ center_freq = R(0)
    /\ sweep_up = TRUE
    /\ bdwth = R(1)

\* the end of a stage: the result is stored, or the exception ends the run
Finish(result, next) ==
    IF IsRaised(result)
    THEN /\ pc' = "error"
         /\ exc' = result.exc
         /\ inten' = inten
    ELSE /\ pc' = next
         /\ exc' = exc
         /\ inten' = result

\* load_data, `if args.bg:' with fg == bg
ExtractFg ==
    /\ pc = "extract"
    /\ args.bg # << >>
    /\ FgOf(args) = args.bg[1]
    /\ Finish(extract_fg(inten, FgOf(args), pts), "extracted")
    /\ UNCHANGED <<win_verified, typed, sweep_count, stages, setup, freq>>

\* load_data, `if args.bg:' with fg != bg
SubBg ==
    /\ pc = "extract"
    /\ args.bg # << >>
    /\ FgOf(args) # args.bg[1]
    /\ Finish(sub_bg(inten, FgOf(args), args.bg[1], pts), "extracted")
    /\ UNCHANGED <<win_verified, typed, sweep_count, stages, setup, freq>>

\* load_data, -bg not specified
AvgInten ==
    /\ pc = "extract"
    /\ args.bg = << >>
    /\ Finish(avg_inten(inten, pts, FgOf(args)), "extracted")
    /\ UNCHANGED <<win_verified, typed, sweep_count, stages, setup, freq>>

NextExtract == ExtractFg \/ SubBg \/ AvgInten

SpecExtract == InitExtract /\ [][NextExtract]_vars

-----------------------------------------------------------------------------
(* Reading an array in the claims *)

\* the sample at row i, column j (1-based; j = 1 for a 1-D array)
At(a, i, j) == IF a.ndim = 1 THEN a.data[i] ELSE a.data[i][j]

ColsOf(a) == IF a.ndim = 1 THEN {1} ELSE 1..a.ncols

SameBands(a, b) == a.ndim = b.ndim /\ a.ncols = b.ncols

\* the stage's input holds full sweeps only
WholeSweeps == Shape0(in_inten) % pts = 0

ValidOrdinal(k) == k \in 1..FullSweeps

RECURSIVE SumOver(_, _, _, _)
\* the sum of the input's samples at offset i, column j of the sweeps in ks
SumOver(ks, i, j, acc) ==
    IF ks = {} THEN acc
    ELSE LET k == CHOOSE x \in ks : TRUE
         IN  SumOver(ks \ {k}, i, j,
                     RAdd(acc, At(in_inten, (k - 1) * pts + i, j)))

-----------------------------------------------------------------------------
(* Claims on the extraction stage (specification SpecExtract) *)

\* C1: for an array of full sweeps and fg in 1..S, extract_fg returns exactly
\* the pts samples at rows (fg-1)*pts .. fg*pts-1, unchanged and in order,
\* with the bands of the input (1-D and 2-D).
C1_ExtractFgReturnsSegment ==
    (/\ pc = "extracted"
     /\ args.bg # << >>
     /\ FgOf(args) = args.bg[1]
     /\ WholeSweeps
     /\ ValidOrdinal(FgOf(args)))
    => inten = [in_inten EXCEPT
                  !.data = SubSeq(in_inten.data, (FgOf(args) - 1) * pts + 1,
                                  FgOf(args) * pts)]

\* C2: for a valid pair fg # bg, sub_bg returns seg_fg[i] - seg_bg[i] when fg
\* and bg have the same parity and seg_fg[i] - seg_bg[pts-1-i] when they have
\* opposite parity, also for fg < bg.
C2_SubBgParity ==
    (/\ pc = "extracted"
     /\ args.bg # << >>
     /\ FgOf(args) # args.bg[1]
     /\ WholeSweeps
     /\ ValidOrdinal(FgOf(args))
     /\ ValidOrdinal(args.bg[1]))
    => LET fg == FgOf(args)
           bg == args.bg[1]
           same == (fg % 2) = (bg % 2)
       IN  /\ Shape0(inten) = pts
           /\ SameBands(inten, in_inten)
           /\ \A i \in 1..pts : \A j \in ColsOf(in_inten) :
                 At(inten, i, j) =
                    RSub(At(in_inten, (fg - 1) * pts + i, j),
                         At(in_inten,
                            (bg - 1) * pts + (IF same THEN i ELSE pts + 1 - i), j))

\* C2 happens: a background of opposite parity after the foreground, on
\* sweeps of several distinct samples
C2_Witness ==
    /\ pc = "extracted"
    /\ args.fg = <<1>>
    /\ args.bg = <<2>>
    /\ pts = 3
    /\ in_inten = InputArray("ramp", 2, 9, 2, 3)
    /\ inten.data[1] = <<R(-5), R(-5)>>
    /\ inten.data[3] = <<R(-1), R(-1)>>

\* C3: with no background ordinal, avg_inten returns at each index the mean
\* of the samples of exactly the sweeps k in 1..S with k mod 2 = fg mod 2,
\* none of them reversed, for any fg.
C3_AvgSameParity ==
    (pc = "extracted" /\ args.bg = << >>)
    => LET ks == {k \in 1..FullSweeps : k % 2 = FgOf(args) % 2}
       IN  ks # {} =>
             /\ Shape0(inten) = pts
             /\ SameBands(inten, in_inten)
             /\ \A i \in 1..pts : \A j \in ColsOf(in_inten) :
                   RMul(At(inten, i, j), R(Cardinality(ks))) = SumOver(ks, i, j, R(0))

\* C3 happens: sweeps 0..2, 2..0, 0..2 with fg = 1 average to the ramp 0..2
C3_Witness ==
    /\ pc = "extracted"
    /\ args.bg = << >>
    /\ FgOf(args) = 1
    /\ pts = 3
    /\ in_inten = InputArray("zigzag", 1, 9, 0, 3)
    /\ inten = Arr1(<<R(0), R(1), R(2)>>)

\* C14: an ordinal out of range (fg or bg <= 0, or greater than the number
\* of sweeps) is a configuration error: avg_inten, extract_fg and sub_bg end
\* in an error and return no array.
C14_OrdinalOutOfRangeFails ==
    (/\ pc \in {"extracted", "error"}
     /\ \/ ~ValidOrdinal(FgOf(args))
        \/ (args.bg # << >> /\ ~ValidOrdinal(args.bg[1])))
    => pc = "error"

\* C15: an intensity array whose length is not an exact multiple of pts ends
\* avg_inten in a shape-mismatch error; the partial sweep is not silently
\* ignored by the floor division.
C15_PartialSweepFails ==
    (/\ pc \in {"extracted", "error"}
     /\ args.bg = << >>
     /\ ~WholeSweeps)
    => pc = "error"

-----------------------------------------------------------------------------
(* Frequency reconstruction: reconstr_freq *)

\* a centre frequency is a float (a rational) or an array of them
IsArray(cf) == "ndim" \in DOMAIN cf

\* single_band dividing by pts: the ramp that leaves the upper band edge out
single_band_open(p, up, bw) ==
    [i \in 1..p |->
        LET x == Rat(i - 1, p)
        IN  IF up
            THEN RMul(bw, RSub(x, Rat(1, 2)))
            ELSE RMul(bw, RSub(Rat(1, 2), x))]

\* bdwth * (np.arange(pts)/(pts-1) - 0.5), or the mirrored ramp
single_band(p, up, bw) ==
    [i \in 1..p |->
        LET x == Rat(i - 1, p - 1)
        IN  IF up
            THEN RMul(bw, RSub(x, Rat(1, 2)))
            ELSE RMul(bw, RSub(Rat(1, 2), x))]

reconstr_freq(cf, p, up, bw) ==
    LET band == single_band(p, up, bw)
    IN  IF IsArray(cf)
        THEN Arr2([i \in 1..p |->
                     [c \in 1..Shape0(cf) |->
                         RAdd(band[i], cf.data[c])]],
                  Shape0(cf))
        ELSE Arr1([i \in 1..p |-> RAdd(band[i], cf)])

-----------------------------------------------------------------------------
(* Detector delay: delay_inten, trunc *)

\* np.roll(s, k) along axis 0: the sample at i moves to i + k, cyclically
Roll(s, k) == [i \in 1..Len(s) |-> s[((i - 1 - k) % Len(s)) + 1]]

\* delay_inten rolling by delay itself: the samples move the other way
delay_inten_forward(a, delay) ==
    [a EXCEPT !.data = Roll(a.data, delay)]

delay_inten(a, delay) ==
    LET dim == Shape0(a)
    IN  [a EXCEPT !.data = Roll(a.data, dim - delay)]

\* the pair (freq_tr, inten_tr); freq[:-delay, :] of a 1-D freq is an IndexError
trunc(f, a, delay) ==
    IF a.ndim # 1 /\ f.ndim = 1 THEN Raised("IndexError")
    ELSE [ndim  |-> 2,
          freq  |-> Rows(f, 0, -delay),
          inten |-> Rows(a, delay, Shape0(a))]

\* load_data, `if args.delay: inten = delay_inten(inten, args.delay[0])'
DelayInten ==
    /\ pc = "delay"
    /\ inten' = IF args.delay # << >>
                THEN delay_inten(inten, args.delay[1])
                ELSE inten
    /\ pc' = "trunc"
    /\ UNCHANGED <<win_verified, typed, sweep_count, stages, setup, freq, exc>>

\* load_data, `if args.delay: freq, inten = trunc(freq, inten, args.delay[0])'
Trunc ==
    /\ pc = "trunc"
    /\ LET r == IF args.delay # << >>
                THEN trunc(freq, inten, args.delay[1])
                ELSE [ndim |-> 2, freq |-> freq, inten |-> inten]
       IN  IF IsRaised(r)
           THEN /\ pc' = "error"
                /\ exc' = r.exc
                /\ UNCHANGED <<freq, inten>>
           ELSE /\ pc' = "loaded"
                /\ freq' = r.freq
                /\ inten' = r.inten
                /\ exc' = exc
    /\ UNCHANGED <<win_verified, typed, sweep_count, stages, setup>>

\* -delay as given on the command line
Delays == -1..(MaxPts + 1)

OptionalDelay == {<< >>} \cup {<<d>> : d \in Delays}

\* the band centres load_data passes on: 0 (no -cf), a float, or the
\* ascending list a centre-frequency file holds
Centres(ndim, c) ==
    IF ndim = 1 THEN {R(0), R(5)}
    ELSE {Arr1([k \in 1..c |-> R(10 + 2 * k)])}

\* the delay stage starts from one extracted sweep and its frequency axis
InitDelay ==
    /\ pc = "delay"
    /\ exc = ""
    /\ win_verified = 0
    /\ typed = NoTyped
    /\ sweep_count = 0
    /\ stages = << >>
    /\ pts \in 2..MaxPts
    /\ bdwth = R(2)
    /\ sweep_up \in BOOLEAN
    /\ \E sh \in Shapes, pat \in Patterns :
          /\ in_inten = InputArray(pat, sh.ndim, pts, sh.ncols, pts)
          /\ center_freq \in Centres(sh.ndim, sh.ncols)
    /\ in_freq = reconstr_freq(center_freq, pts, sweep_up, bdwth)
    /\ inten = in_inten
    /\ freq = in_freq
    /\ \E d \in OptionalDelay : args = [NoArgs EXCEPT !.delay = d]

NextDelay == DelayInten \/ Trunc

SpecDelay == InitDelay /\ [][NextDelay]_vars

-----------------------------------------------------------------------------
(* Claims on the delay stage (specification SpecDelay) *)

\* C4: for 0 < d < pts, delay correction (delay_inten, then trunc) returns a
\* frequency axis and an intensity array of equal length pts - d: the
\* frequency with its last d samples dropped, and output intensity[i] =
\* input intensity[i + d], paired with frequency[i].
C4_DelayDropsLastSamples ==
    (/\ pc = "loaded"
     /\ args.delay # << >>
     /\ args.delay[1] > 0
     /\ args.delay[1] < pts)
    => LET d == args.delay[1]
       IN  /\ Shape0(freq) = pts - d
           /\ Shape0(inten) = pts - d
           /\ \A i \in 1..(pts - d) :
                 /\ freq.data[i] = in_freq.data[i]
                 /\ inten.data[i] = in_inten.data[i + d]

\* C5: a supplied delay of 0 is a no-op: the frequency axis and the intensity
\* array are both returned unchanged, with all pts samples.
C5_ZeroDelayNoOp ==
    (pc = "loaded" /\ args.delay = <<0>>)
    => /\ freq = in_freq
       /\ inten = in_inten
       /\ Shape0(freq) = pts
       /\ Shape0(inten) = pts

\* C20: delay_inten rolls the intensity cyclically so that the first `delay'
\* samples move to the end: for 0 <= d < n, delay_inten(x, d)[i] =
\* x[(i + d) mod n], with the length unchanged; a 2-D array has every column
\* rolled alike, no sample moving from one column to another.
C20_DelayIntenRolls ==
    (/\ pc = "trunc"
     /\ args.delay # << >>
     /\ args.delay[1] >= 0
     /\ args.delay[1] < pts)
    => LET d == args.delay[1]
       IN  /\ Shape0(inten) = pts
           /\ SameBands(inten, in_inten)
           /\ \A i \in 0..(pts - 1) : \A c \in ColsOf(in_inten) :
                 At(inten, i + 1, c) = At(in_inten, ((i + d) % pts) + 1, c)

\* C20 happens: a delay of 1 on three points moves the first sample to the end
C20_Witness ==
    /\ pc = "trunc"
    /\ args.delay = <<1>>
    /\ pts = 3
    /\ in_inten = Arr1(<<R(0), R(1), R(2)>>)
    /\ inten = Arr1(<<R(1), R(2), R(0)>>)

-----------------------------------------------------------------------------
(* Stitching: glue_sweep, flat_wave *)

\* np.cumsum
RECURSIVE CumSum(_)
CumSum(s) ==
    IF Len(s) <= 1 THEN s
    ELSE LET head == CumSum(SubSeq(s, 1, Len(s) - 1))
         IN  Append(head, RAdd(head[Len(head)], s[Len(s)]))

\* col_shift without col_shift[0] = 0: the end of the last column wraps
\* round to the first
col_shift_wrapped(y) ==
    LET last  == Roll(y.data[Shape0(y)], 1)
        first == y.data[1]
    IN  [c \in 1..y.ncols |-> RSub(last[c], first[c])]

\* np.roll(y[-1, :], 1) - y[0, :], with col_shift[0] = 0
col_shift(y) ==
    LET last  == Roll(y.data[Shape0(y)], 1)
        first == y.data[1]
    IN  [c \in 1..y.ncols |-> IF c = 1 THEN R(0) ELSE RSub(last[c], first[c])]

\* glue_sweep adding to each column its own jump only, not the accumulated one
glue_sweep_no_accum(y) ==
    LET shift == col_shift(y)
    IN  Arr2([i \in 1..Shape0(y) |->
                [c \in 1..y.ncols |-> RAdd(y.data[i][c], shift[c])]], y.ncols)

glue_sweep(y) ==
    LET col_shift_accum == CumSum(col_shift(y))
    IN  Arr2([i \in 1..Shape0(y) |->
                [c \in 1..y.ncols |-> RAdd(y.data[i][c], col_shift_accum[c])]],
             y.ncols)

\* a.flatten('F'): column after column
FlattenF(a) ==
    LET n == Shape0(a)
    IN  Arr1([k \in 1..(n * a.ncols) |-> a.data[((k - 1) % n) + 1][((k - 1) \div n) + 1]])

\* the index arrays np.argsort(s) may return: every permutation that sorts s
\* (the default sort is not stable, and nan sorts last)
Before(x, y) == IF x = NaN THEN FALSE ELSE IF y = NaN THEN TRUE ELSE RLt(x, y)

ArgSorts(s) ==
    {p \in [1..Len(s) -> 1..Len(s)] :
        /\ \A i, j \in 1..Len(s) : i # j => p[i] # p[j]
        /\ \A i \in 1..(Len(s) - 1) : ~Before(s[p[i + 1]], s[p[i]])}

Take(s, index) == [i \in 1..Len(index) |-> s[index[i]]]

\* flat_wave turning a down sweep's frequency over but not its intensity
flat_wave_2d_freq_only(f, a, nobase) ==
    LET up_bool == RLt(f.data[1][1], f.data[Shape0(f)][1])
        f1 == IF up_bool THEN f ELSE flipud(f)
    IN  [freq  |-> FlattenF(f1),
         inten |-> IF nobase THEN FlattenF(a) ELSE FlattenF(glue_sweep(a))]

\* flat_wave on a 2-D pair: the pair (freq_flat, inten_flat)
flat_wave_2d(f, a, nobase) ==
    LET up_bool == RLt(f.data[1][1], f.data[Shape0(f)][1])
        f1 == IF up_bool THEN f ELSE flipud(f)
        a1 == IF up_bool THEN a ELSE flipud(a)
    IN  [freq  |-> FlattenF(f1),
         inten |-> IF nobase THEN FlattenF(a1) ELSE FlattenF(glue_sweep(a1))]

\* load_data: freq = reconstr_freq(center_freq, pts, sweep_up=sweep_up, bdwth=bdwth)
ReconstrFreq ==
    /\ pc = "reconstruct"
    /\ freq' = reconstr_freq(center_freq, pts, sweep_up, bdwth)
    /\ pc' = "flat"
    /\ UNCHANGED <<win_verified, typed, sweep_count, stages, setup, inten, exc>>

\* flat_wave(freq, inten, input_args.nobase)
FlatWave ==
    /\ pc = "flat"
    /\ IF inten.ndim = 1
       THEN \E sort_index \in ArgSorts(freq.data) :
               /\ freq' = Arr1(Take(freq.data, sort_index))
               /\ inten' = Arr1(Take(inten.data, sort_index))
       ELSE LET r == flat_wave_2d(freq, inten, args.nobase)
            IN  /\ freq' = r.freq
                /\ inten' = r.inten
    /\ pc' = "flattened"
    /\ UNCHANGED <<win_verified, typed, sweep_count, stages, setup, exc>>

\* glue_sweep(y), called on its own as the unit test does
GlueSweep ==
    /\ pc = "flat"
    /\ inten.ndim = 2
    /\ inten' = glue_sweep(inten)
    /\ pc' = "glued"
    /\ UNCHANGED <<win_verified, typed, sweep_count, stages, setup, freq, exc>>

Bandwidths == {R(1), R(2), R(3)}

\* centre lists: ascending, evenly spaced
CentreLists == {Arr1([k \in 1..c |-> R(10 + sp * k)]) : c \in 1..MaxBands, sp \in 1..2}

\* the stitching stage starts from the band centres and one sweep of
\* intensity per band
InitStitch ==
    /\ pc = "reconstruct"
    /\ exc = ""
    /\ win_verified = 0
    /\ typed = NoTyped
    /\ sweep_count = 0
    /\ stages = << >>
    /\ pts \in 1..MaxPts
    /\ bdwth \in Bandwidths
    /\ sweep_up \in BOOLEAN
    /\ center_freq \in {R(0), R(5)} \cup CentreLists
    /\ \E pat \in Patterns :
          in_inten = IF IsArray(center_freq)
                     THEN InputArray(pat, 2, pts, Shape0(center_freq), pts)
                     ELSE InputArray(pat, 1, pts, 0, pts)
    /\ inten = in_inten
    /\ freq = Arr1(<< >>)
    /\ in_freq = freq
    /\ \E nb \in BOOLEAN : args = [NoArgs EXCEPT !.nobase = nb]

NextStitch == ReconstrFreq \/ FlatWave \/ GlueSweep

SpecStitch == InitStitch /\ [][NextStitch]_vars

-----------------------------------------------------------------------------
(* Claims on frequency reconstruction and stitching (specification
   SpecStitch) *)

\* the centre of band c
CentreOf(c) == IF IsArray(center_freq) THEN center_freq.data[c] ELSE center_freq

\* the band centres are a list whose spacing is the bandwidth
SpacedByBandwidth ==
    /\ IsArray(center_freq)
    /\ Shape0(center_freq) >= 2
    /\ \A c \in 1..(Shape0(center_freq) - 1) :
          RSub(center_freq.data[c + 1], center_freq.data[c]) = bdwth

\* the ramp value at index i (0-based) of n steps, around a centre
RampAt(centre, i, n) ==
    LET r == RMul(bdwth, RSub(Rat(i, n), Rat(1, 2)))
    IN  IF sweep_up THEN RAdd(centre, r) ELSE RSub(centre, r)

\* C6: for an ascending list of centres spaced by the bandwidth, pts >= 2 and
\* either direction, the flattened frequency of flat_wave(reconstr_freq(..))
\* is strictly increasing, across every band boundary too.
C6_StitchedFreqStrictlyIncreasing ==
    (pc = "flattened" /\ SpacedByBandwidth /\ pts >= 2)
    => \A k \in 1..(Shape0(freq) - 1) : RLt(freq.data[k], freq.data[k + 1])

\* C7: after glue_sweep the last row of every column equals the first row of
\* the next column; so does the intensity flat_wave flattens when nobase is
\* false (the end of segment c meets the start of segment c + 1).
C7_GlueContinuity ==
    /\ pc = "glued" =>
          \A c \in 1..(inten.ncols - 1) :
             inten.data[Shape0(inten)][c] = inten.data[1][c + 1]
    /\ (pc = "flattened" /\ in_inten.ndim = 2 /\ ~args.nobase) =>
          \A c \in 1..(in_inten.ncols - 1) :
             inten.data[c * pts] = inten.data[c * pts + 1]

\* C7 happens: three columns that did not meet are glued
C7_Witness ==
    /\ pc = "glued"
    /\ pts = 3
    /\ in_inten = InputArray("square", 2, 3, 3, 3)
    /\ in_inten.data[3][1] # in_inten.data[1][2]
    /\ in_inten.data[3][2] # in_inten.data[1][3]
    /\ inten.data[3] = <<R(4), R(8), R(12)>>

RECURSIVE ColumnsDownFrom(_)
ColumnsDownFrom(c) ==
    IF c = 0 THEN << >>
    ELSE [i \in 1..pts |-> freq.data[i][c]] \o ColumnsDownFrom(c - 1)

\* C9: as the unit test states it, reconstr_freq with a scalar centre c
\* returns c + B*(i/pts - 0.5) (sweep up) or c - B*(i/pts - 0.5) (sweep
\* down), i = 0..pts-1; and for ascending centres spaced by B with sweep
\* down, the columns taken from the highest to the lowest centre make one
\* evenly spaced descending ramp of step B/pts.
C9_ReconstrFreqAsTested ==
    (pc = "flat" /\ pts >= 2)
    => /\ ~IsArray(center_freq) =>
             \A i \in 1..pts : freq.data[i] = RampAt(center_freq, i - 1, pts)
       /\ (SpacedByBandwidth /\ ~sweep_up) =>
             LET ramp == ColumnsDownFrom(freq.ncols)
             IN  \A k \in 1..(Len(ramp) - 1) :
                    RSub(ramp[k], ramp[k + 1]) = RDiv(bdwth, R(pts))

\* the input row that lands at row i of an ascending segment
SourceRow(i) == IF sweep_up THEN i ELSE pts + 1 - i

\* the position of row i of segment c in the flattened arrays
FlatIndex(i, c) == (c - 1) * pts + i

\* C18: flat_wave keeps every intensity paired with its frequency. A 2-D
\* input whose column 0 decreases has both arrays reversed along the sample
\* axis, then both are flattened column after column (segment c before c + 1,
\* frequency increasing within each segment); with nobase the output pairs
\* are the input pairs, and without it every intensity of a segment differs
\* from its input by the segment's one stitching shift. A 1-D input has its
\* pairs sorted by frequency with no shift; an ascending one comes back
\* unchanged.
C18_FlatWaveKeepsPairs ==
    (pc = "flattened" /\ pts >= 2)
    => IF in_inten.ndim = 2
       THEN /\ Shape0(freq) = pts * in_inten.ncols
            /\ Shape0(inten) = pts * in_inten.ncols
            /\ \A c \in 1..in_inten.ncols : \A i \in 1..pts :
                  /\ freq.data[FlatIndex(i, c)] =
                        RampAt(CentreOf(c), SourceRow(i) - 1, pts - 1)
                  /\ i < pts => RLt(freq.data[FlatIndex(i, c)],
                                    freq.data[FlatIndex(i + 1, c)])
                  /\ args.nobase =>
                        inten.data[FlatIndex(i, c)] = in_inten.data[SourceRow(i)][c]
                  /\ RSub(inten.data[FlatIndex(i, c)], in_inten.data[SourceRow(i)][c])
                        = RSub(inten.data[FlatIndex(1, c)],
                               in_inten.data[SourceRow(1)][c])
       ELSE /\ Shape0(freq) = pts
            /\ Shape0(inten) = pts
            /\ \A i \in 1..pts :
                  /\ freq.data[i] = RampAt(center_freq, SourceRow(i) - 1, pts - 1)
                  /\ inten.data[i] = in_inten.data[SourceRow(i)]
                  /\ i < pts => RLt(freq.data[i], freq.data[i + 1])
            /\ sweep_up => inten = in_inten

\* C18 happens: two down-swept bands of three points are turned over
C18_Witness ==
    /\ pc = "flattened"
    /\ pts = 3
    /\ ~sweep_up
    /\ args.nobase
    /\ in_inten.ndim = 2
    /\ in_inten.ncols = 2
    /\ in_inten.data[1][1] # in_inten.data[3][1]
    /\ inten.data[1] = in_inten.data[3][1]
    /\ inten.data[4] = in_inten.data[3][2]
    /\ RLt(freq.data[1], freq.data[2])

\* the constant glue_sweep owes column c: the jumps between the columns
\* before it, taken from the input
RECURSIVE JumpsBefore(_)
JumpsBefore(c) ==
    IF c <= 1 THEN R(0)
    ELSE RAdd(JumpsBefore(c - 1),
              RSub(in_inten.data[Shape0(in_inten)][c - 1], in_inten.data[1][c]))

\* C19: glue_sweep keeps each segment's shape: column 0 is unchanged and
\* every row of column c > 0 gets the same constant, the sum over k = 1..c of
\* (y[last, k-1] - y[0, k]) of the input; so differences within a column are
\* unchanged and a single-column matrix comes back unchanged.
C19_GlueKeepsSegmentShape ==
    pc = "glued"
    => /\ Shape0(inten) = Shape0(in_inten)
       /\ inten.ncols = in_inten.ncols
       /\ \A i \in 1..Shape0(in_inten) :
             /\ inten.data[i][1] = in_inten.data[i][1]
             /\ \A c \in 1..in_inten.ncols :
                   inten.data[i][c] = RAdd(in_inten.data[i][c], JumpsBefore(c))
       /\ \A c \in 1..in_inten.ncols : \A i \in 1..(Shape0(in_inten) - 1) :
             RSub(inten.data[i + 1][c], inten.data[i][c]) =
                RSub(in_inten.data[i + 1][c], in_inten.data[i][c])
       /\ in_inten.ncols = 1 => inten = in_inten

\* C19 happens: three columns of two rows, the third moved by more than the
\* second
C19_Witness ==
    /\ pc = "glued"
    /\ pts = 2
    /\ in_inten.ncols = 3
    /\ JumpsBefore(2) # R(0)
    /\ JumpsBefore(3) # JumpsBefore(2)
    /\ inten.data[1][1] = in_inten.data[1][1]
    /\ inten.data[2][3] = RAdd(in_inten.data[2][3], JumpsBefore(3))

\* C17: pts = 1 is rejected: reconstr_freq with pts = 1 (scalar or array
\* centres, either sweep direction) ends in a configuration error and returns
\* no axis, so the run never gets past the reconstruction.
C17_SinglePointRejected ==
    pts = 1 => pc \notin {"flat", "flattened", "glued"}

-----------------------------------------------------------------------------
(* Per-sweep processing: box_win, box_car, db_poly, proc_nb *)

RECURSIVE RSum(_)
RSum(s) == IF s = << >> THEN R(0) ELSE RAdd(Head(s), RSum(Tail(s)))

\* box_win without the abs() of its first line
box_win_signed(win) ==
    LET verified == win
    IN  IF verified = 0 THEN 1
        ELSE IF verified % 2 = 0 THEN verified + 1
        ELSE verified

box_win(win) ==
    LET verified == Abs(win)
    IN  IF verified = 0 THEN 1
        ELSE IF verified % 2 = 0 THEN verified + 1
        ELSE verified

\* box_car without the division by the window: the sliding sum
box_car_sum(x, win) ==
    IF win = 1 THEN Arr1(x)
    ELSE IF win <= 0 \/ Len(x) = 0 THEN Raised("ValueError")
    ELSE IF win <= Len(x)
    THEN Arr1([i \in 1..(Len(x) - win + 1) |-> RSum(SubSeq(x, i, i + win - 1))])
    ELSE Arr1([i \in 1..(win - Len(x) + 1) |-> RSum(x)])

\* box_car on one 1-D sequence.  np.ones(win) raises ValueError for win < 0;
\* np.convolve raises ValueError for an empty kernel or an empty array; in
\* 'valid' mode the longer of array and kernel slides over the shorter.
box_car(x, win) ==
    IF win = 1 THEN Arr1(x)
    ELSE IF win <= 0 \/ Len(x) = 0 THEN Raised("ValueError")
    ELSE IF win <= Len(x)
    THEN Arr1([i \in 1..(Len(x) - win + 1) |->
                  RDiv(RSum(SubSeq(x, i, i + win - 1)), R(win))])
    ELSE Arr1([i \in 1..(win - Len(x) + 1) |-> RDiv(RSum(x), R(win))])

Column(a, c) == [i \in 1..Shape0(a) |-> a.data[i][c]]

\* the 2-D array whose columns are the 1-D arrays cols[1], cols[2], ...
FromColumns(cols) ==
    IF \E c \in 1..Len(cols) : IsRaised(cols[c])
    THEN cols[CHOOSE c \in 1..Len(cols) : IsRaised(cols[c])]
    ELSE Arr2([i \in 1..Shape0(cols[1]) |-> [c \in 1..Len(cols) |-> cols[c].data[i]]],
              Len(cols))

\* box_car(a, win) for a 1-D array, np.apply_along_axis(box_car, 0, a, win)
\* for a 2-D one
BoxCarAlong(a, win) ==
    IF a.ndim = 1 THEN box_car(a.data, win)
    ELSE FromColumns([c \in 1..a.ncols |-> box_car(Column(a, c), win)])

\* db_poly fitting a constant only (deg = 0): y minus its mean
db_poly_deg0(y, fault) ==
    LET n  == Len(y)
        ym == RDiv(RSum(y), R(n))
    IN  IF n = 0 THEN Raised("TypeError")
        ELSE Arr1([i \in 1..n |-> RSub(y[i], ym)])

\* db_poly with deg = 1 on one 1-D sequence: y minus its least-squares line
\* over x = i/(n-1).  For n = 1 the abscissa is 0/0 and numpy either
\* propagates nan or gives up in the SVD (fault = "raise").
db_poly(y, fault) ==
    LET n   == Len(y)
        x   == [i \in 1..n |-> Rat(i - 1, n - 1)]
        xm  == RDiv(RSum(x), R(n))
        ym  == RDiv(RSum(y), R(n))
        sxx == RSum([i \in 1..n |-> RMul(RSub(x[i], xm), RSub(x[i], xm))])
        sxy == RSum([i \in 1..n |-> RMul(RSub(x[i], xm), RSub(y[i], ym))])
        k   == RDiv(sxy, sxx)
        b   == RSub(ym, RMul(k, xm))
    IN  IF n = 0 THEN Raised("TypeError")
        ELSE IF n = 1 /\ fault = "raise" THEN Raised("LinAlgError")
        ELSE Arr1([i \in 1..n |-> RSub(y[i], RAdd(RMul(k, x[i]), b))])

DbPolyAlong(a, fault) ==
    IF a.ndim = 1 THEN db_poly(a.data, fault)
    ELSE FromColumns([c \in 1..a.ncols |-> db_poly(Column(a, c), fault)])

RMin(s) == CHOOSE x \in {s[i] : i \in 1..Len(s)} :
              \A i \in 1..Len(s) : ~RLt(s[i], x)

RMax(s) == CHOOSE x \in {s[i] : i \in 1..Len(s)} :
              \A i \in 1..Len(s) : ~RLt(x, s[i])

\* the k-th smallest element of s, k = 1..Len(s)
Kth(s, k) ==
    CHOOSE x \in {s[i] : i \in 1..Len(s)} :
       /\ Cardinality({i \in 1..Len(s) : RLt(s[i], x)}) < k
       /\ Cardinality({i \in 1..Len(s) : ~RLt(x, s[i])}) >= k

\* np.median: the middle element, or the mean of the two middle ones; nan
\* when an element is nan
Median(s) ==
    IF \E i \in 1..Len(s) : ~IsFinite(s[i]) THEN NaN
    ELSE IF Len(s) % 2 = 1 THEN Kth(s, (Len(s) + 1) \div 2)
    ELSE RDiv(RAdd(Kth(s, Len(s) \div 2), Kth(s, Len(s) \div 2 + 1)), R(2))

\* every element of s less lo, divided by the span of the result
ShiftScale(s, lo, hi) ==
    [i \in 1..Len(s) |-> RDiv(RSub(s[i], lo), RSub(RSub(hi, lo), RSub(lo, lo)))]

\* y - y.min(), divided by its ptp(): 0/0 = nan everywhere for a flat y
Rescaled(y) == ShiftScale(y, RMin(y), RMax(y))

\* the three branches of weight_spline on the rescaled array and its median
Thresholded(weight, median) ==
    IF RLt(Rat(9, 10), median)
    THEN [i \in 1..Len(weight) |->
            IF RLt(weight[i], Rat(9, 10)) THEN R(0) ELSE weight[i]]
    ELSE IF RLt(median, Rat(1, 10))
    THEN [i \in 1..Len(weight) |->
            IF RLt(Rat(1, 10), weight[i]) THEN R(0) ELSE weight[i]]
    ELSE [i \in 1..Len(weight) |-> R(1)]

\* the branches with the last one keeping the rescaled array
ThresholdedOrKept(weight, median) ==
    IF RLt(Rat(9, 10), median) \/ RLt(median, Rat(1, 10))
    THEN Thresholded(weight, median)
    ELSE weight

WithMedian(weight) == Thresholded(weight, Median(weight))

WithMedianKept(weight) == ThresholdedOrKept(weight, Median(weight))

\* weight_spline whose last branch keeps the rescaled array
weight_spline_rescaled(y) ==
    IF Len(y) = 0 THEN Raised("ValueError")
    ELSE Arr1(WithMedianKept(Rescaled(y)))

\* weight_spline on one 1-D sequence; min() of an empty array is a ValueError
weight_spline(y) ==
    IF Len(y) = 0 THEN Raised("ValueError")
    ELSE Arr1(WithMedian(Rescaled(y)))

\* the weights leave np.polyfit no point to fit
NoWeight(weight) == \A i \in 1..Len(weight.data) : weight.data[i] = R(0)

\* db_spline on one 1-D sequence.  The spline itself is scipy's and is kept
\* uninterpreted: the result is the argument, marked with the functions
\* applied to it that the model does not compute (fn).  What the
\* model keeps is when the call fails: FITPACK wants more points than the
\* order of the spline, and np.polyfit wants a point of nonzero weight.
db_spline(y) ==
    IF Len(y) <= SplineOrder THEN Raised("dfitpack.error")
    ELSE IF NoWeight(weight_spline(y)) THEN Raised("TypeError")
    ELSE [ndim |-> 1, ncols |-> 0, data |-> y, fn |-> <<"db_spline">>]

\* the first exception among the columns' results, or a marked as smoothed
Smoothed(a, cols) ==
    IF \E c \in 1..Len(cols) : IsRaised(cols[c])
    THEN cols[CHOOSE c \in 1..Len(cols) :
                 /\ IsRaised(cols[c])
                 /\ \A b \in 1..(c - 1) : ~IsRaised(cols[b])]
    ELSE [ndim |-> a.ndim, ncols |-> a.ncols, data |-> a.data,
          fn |-> <<"db_spline">>]

\* np.apply_along_axis(db_spline, 0, a)
DbSplineAlong(a) ==
    Smoothed(a, IF a.ndim = 1 THEN <<db_spline(a.data)>>
                ELSE [c \in 1..a.ncols |-> db_spline(Column(a, c))])

\* what proc_nb returns: the exception of its last step, or the pair
Returned(freq_b, inten_p) ==
    IF IsRaised(inten_p) THEN inten_p
    ELSE [ndim |-> 2, freq |-> freq_b, inten |-> inten_p]

\* proc_nb cropping the frequency axis at its start only instead of
\* smoothing it
proc_nb_crop_head(f, a, opts, fault) ==
    LET win     == opts.box[1]
        freq_b  == IF opts.box # << >> THEN Rows(f, win - 1, Shape0(f)) ELSE f
        inten_b == IF opts.box # << >> THEN BoxCarAlong(a, win) ELSE a
        inten_p == DbPolyAlong(inten_b, fault)
    IN  IF IsRaised(inten_b) THEN inten_b
        ELSE IF opts.nobase THEN [ndim |-> 2, freq |-> freq_b, inten |-> inten_b]
        ELSE IF IsRaised(inten_p) THEN inten_p
        ELSE [ndim |-> 2, freq |-> freq_b, inten |-> inten_p]

\* proc_nb: the pair (freq_b, inten_p/b), or the exception it raises.  The
\* window is args.box[0] as given: the local name box_win shadows the
\* function box_win, which is not called.
proc_nb(f, a, opts, fault) ==
    LET win     == opts.box[1]
        freq_b  == IF opts.box # << >> THEN BoxCarAlong(f, win) ELSE f
        inten_b == IF opts.box # << >> THEN BoxCarAlong(a, win) ELSE a
        inten_p == DbPolyAlong(inten_b, fault)
    IN  IF IsRaised(freq_b) THEN freq_b
        ELSE IF IsRaised(inten_b) THEN inten_b
        ELSE IF opts.nobase THEN [ndim |-> 2, freq |-> freq_b, inten |-> inten_b]
        ELSE IF IsRaised(inten_p) THEN inten_p
        ELSE IF opts.spline THEN Returned(freq_b, DbSplineAlong(inten_b))
        ELSE [ndim |-> 2, freq |-> freq_b, inten |-> inten_p]

\* freq, inten = proc_nb(freq, inten, input_args)
ProcNb ==
    /\ pc = "nb"
    /\ \E fault \in {"nan", "raise"} :
          LET r == proc_nb(freq, inten, args, fault)
          IN  IF IsRaised(r)
              THEN /\ pc' = "error"
                   /\ exc' = r.exc
                   /\ UNCHANGED <<freq, inten>>
              ELSE /\ pc' = "processed"
                   /\ freq' = r.freq
                   /\ inten' = r.inten
                   /\ exc' = exc
    /\ UNCHANGED <<win_verified, typed, sweep_count, stages, setup>>

\* -box as given on the command line: any integer is parsed
Windows == -2..(MaxPts + 1)

OptionalWindow == {<< >>} \cup {<<w>> : w \in Windows}

\* the per-sweep stage starts from what load_data returns
InitBox ==
    /\ pc = "nb"
    /\ exc = ""
    /\ win_verified = 0
    /\ typed = NoTyped
    /\ sweep_count = 0
    /\ stages = << >>
    /\ pts \in 2..MaxPts
    /\ bdwth = R(2)
    /\ sweep_up \in BOOLEAN
    /\ \E sh \in Shapes, pat \in Patterns :
          /\ in_inten = InputArray(pat, sh.ndim, pts, sh.ncols, pts)
          /\ center_freq \in Centres(sh.ndim, sh.ncols)
    /\ in_freq = reconstr_freq(center_freq, pts, sweep_up, bdwth)
    /\ inten = in_inten
    /\ freq = in_freq
    /\ \E w \in OptionalWindow, nb \in BOOLEAN :
          args = [NoArgs EXCEPT !.box = w, !.nobase = nb]

NextBox == ProcNb

SpecBox == InitBox /\ [][NextBox]_vars

-----------------------------------------------------------------------------
(* Claims on the per-sweep stage (specification SpecBox) *)

\* C10: for every integer window w given in the configuration (zero, even,
\* negative included), proc_nb smooths with the window box_win(w): the stage
\* does not fail and each smoothed column has n - box_win(w) + 1 rows, each
\* the mean of box_win(w) consecutive samples.
C10_ProcNbNormalizesWindow ==
    (/\ pc \in {"processed", "error"}
     /\ args.box # << >>
     /\ args.nobase
     /\ box_win(args.box[1]) <= pts)
    => LET w == box_win(args.box[1])
       IN  /\ pc = "processed"
           /\ Shape0(inten) = pts - w + 1
           /\ Shape0(freq) = pts - w + 1
           /\ \A i \in 1..(pts - w + 1) : \A c \in ColsOf(in_inten) :
                 RMul(At(inten, i, c), R(w)) =
                    RSum([k \in 1..w |-> At(in_inten, i + k - 1, c)])

\* the window the run was given
GivenWindow == args.box[1]

\* C11: box_car(x, 1) returns x unchanged; for 1 < w <= n, box_car(x, w) has
\* length n - w + 1 and its i-th element is the mean of x[i..i+w-1]; on a
\* 2-D array each column is smoothed on its own.
C11_BoxCarMovingAverage ==
    (/\ pc = "processed"
     /\ args.box # << >>
     /\ args.nobase
     /\ GivenWindow >= 1
     /\ GivenWindow <= pts)
    => /\ GivenWindow = 1 => (inten = in_inten /\ freq = in_freq)
       /\ Shape0(inten) = pts - GivenWindow + 1
       /\ SameBands(inten, in_inten)
       /\ \A i \in 1..(pts - GivenWindow + 1) : \A c \in ColsOf(in_inten) :
             RMul(At(inten, i, c), R(GivenWindow)) =
                RSum([k \in 1..GivenWindow |-> At(in_inten, i + k - 1, c)])

\* C11 happens: window 3 on the ramp 0..3 gives 1, 2
C11_Witness ==
    /\ pc = "processed"
    /\ args.box = <<3>>
    /\ args.nobase
    /\ in_inten = Arr1(<<R(0), R(1), R(2), R(3)>>)
    /\ inten = Arr1(<<R(1), R(2)>>)

\* C13: after the boxcar stage with an odd window w <= n the frequency stays
\* aligned with the intensity: both have n - w + 1 rows and the same
\* columns, and output frequency[i] = input frequency[i + w//2], 1-D and
\* 2-D (the axis load_data builds is evenly spaced).
C13_BoxcarKeepsFreqAligned ==
    (/\ pc = "processed"
     /\ args.box # << >>
     /\ GivenWindow % 2 = 1
     /\ GivenWindow >= 1
     /\ GivenWindow <= pts)
    => /\ Shape0(freq) = pts - GivenWindow + 1
       /\ Shape0(inten) = pts - GivenWindow + 1
       /\ SameBands(freq, in_freq)
       /\ SameBands(inten, in_inten)
       /\ \A i \in 1..(pts - GivenWindow + 1) : \A c \in ColsOf(in_freq) :
             At(freq, i, c) = At(in_freq, i + (GivenWindow \div 2), c)

\* C13 happens: window 3 on two bands of four points
C13_Witness ==
    /\ pc = "processed"
    /\ args.box = <<3>>
    /\ pts = 4
    /\ in_freq.ndim = 2
    /\ in_freq.ncols = 2
    /\ Shape0(freq) = 2
    /\ freq.data[1] = in_freq.data[2]
    /\ freq.data[2] = in_freq.data[3]

\* C16: a boxcar window greater than or equal to the array length makes
\* box_car, and proc_nb that applies it, fail with an error; no result
\* (empty, one element, or of length w - n + 1) is returned.
C16_WindowNotShorterFails ==
    (/\ pc \in {"processed", "error"}
     /\ args.box # << >>
     /\ GivenWindow >= pts)
    => pc = "error"

\* column c of the input is a straight line a*i + b
LinearInput(c) ==
    \A i \in 1..(Shape0(in_inten) - 1) :
       RSub(At(in_inten, i + 1, c), At(in_inten, i, c)) =
          RSub(At(in_inten, 2, c), At(in_inten, 1, c))

\* C21: db_poly with degree 1 on a perfectly linear input y[i] = a*i + b of
\* length >= 2 returns an all-zero array of the same length; in general the
\* degree-1 residual has zero sum and zero correlation with the index.
C21_DbPolyRemovesLine ==
    (/\ pc = "processed"
     /\ ~args.nobase
     /\ ~args.spline
     /\ Shape0(inten) >= 2)
    => \A c \in ColsOf(inten) :
          /\ RSum([i \in 1..Shape0(inten) |-> At(inten, i, c)]) = R(0)
          /\ RSum([i \in 1..Shape0(inten) |-> RMul(R(i), At(inten, i, c))]) = R(0)
          /\ (args.box = << >> /\ LinearInput(c)) =>
                /\ Shape0(inten) = pts
                /\ \A i \in 1..pts : At(inten, i, c) = R(0)

\* C21 happens: the ramp 0..3 is removed whole
C21_Witness ==
    /\ pc = "processed"
    /\ ~args.nobase
    /\ args.box = << >>
    /\ in_inten = Arr1(<<R(0), R(1), R(2), R(3)>>)
    /\ inten = Arr1(<<R(0), R(0), R(0), R(0)>>)

-----------------------------------------------------------------------------
(* box_win on its own, as test_box_window calls it *)

\* test = sp.box_win(pair_in)
BoxWin ==
    /\ pc = "window"
    /\ win_verified' = box_win(GivenWindow)
    /\ pc' = "verified"
    /\ UNCHANGED <<typed, sweep_count, stages, setup, inten, freq, exc>>

\* box_win applied to its own result
BoxWinAgain ==
    /\ pc = "verified"
    /\ win_verified' = box_win(win_verified)
    /\ pc' = "reverified"
    /\ UNCHANGED <<typed, sweep_count, stages, setup, inten, freq, exc>>

InitWin ==
    /\ pc = "window"
    /\ exc = ""
    /\ win_verified = 0
    /\ typed = NoTyped
    /\ sweep_count = 0
    /\ stages = << >>
    /\ pts = 1
    /\ bdwth = R(1)
    /\ sweep_up = TRUE
    /\ center_freq = R(0)
    /\ in_inten = Arr1(<< >>)
    /\ in_freq = Arr1(<< >>)
    /\ inten = in_inten
    /\ freq = in_freq
    /\ \E w \in (-MaxWin)..MaxWin : args = [NoArgs EXCEPT !.box = <<w>>]

NextWin == BoxWin \/ BoxWinAgain

SpecWin == InitWin /\ [][NextWin]_vars

\* C12: box_win(w) is odd and >= 1 for every integer w: 1 for w = 0, |w| for
\* odd w, |w| + 1 for even w # 0 (box_win(0) = 1, box_win(2) = 3,
\* box_win(-2) = 3, box_win(-1) = 1); and box_win is idempotent.
C12_BoxWinOdd ==
    pc \in {"verified", "reverified"}
    => LET w == GivenWindow
       IN  /\ win_verified % 2 = 1
           /\ win_verified >= 1
           /\ w = 0 => win_verified = 1
           /\ w % 2 = 1 => win_verified = (IF w < 0 THEN -w ELSE w)
           /\ (w # 0 /\ w % 2 = 0) => win_verified = (IF w < 0 THEN -w ELSE w) + 1
           /\ w \in {-2, 2} => win_verified = 3
           /\ w = -1 => win_verified = 1

\* C12 happens: box_win(-2) = 3, and 3 again when applied twice
C12_Witness ==
    /\ pc = "reverified"
    /\ args.box = <<-2>>
    /\ win_verified = 3

-----------------------------------------------------------------------------
(* The spline weights on their own: weight_spline, db_spline *)

\* weight = weight_spline(y)
WeightSpline ==
    /\ pc = "spline"
    /\ Finish(weight_spline(inten.data), "weighted")
    /\ UNCHANGED <<win_verified, typed, sweep_count, stages, setup, freq>>

\* y_db = db_spline(y)
DbSpline ==
    /\ pc = "spline"
    /\ Finish(db_spline(inten.data), "splined")
    /\ UNCHANGED <<win_verified, typed, sweep_count, stages, setup, freq>>

\* the baselines a sweep is drawn on: level, alternating by one unit, or
\* rising by one unit a sample
Baselines == {"flat", "ripple", "tilt"}

\* one peak (height > 0) or dip (height < 0) at sample k of a baseline
PeakOn(base, n, k, height) ==
    Arr1([i \in 1..n |->
            R((IF i = k THEN height ELSE 0)
              + (CASE base = "ripple" -> (i - 1) % 2
                   [] base = "tilt"   -> i - 1
                   [] OTHER           -> 0))])

InitSpline ==
    /\ pc = "spline"
    /\ exc = ""
    /\ win_verified = 0
    /\ typed = NoTyped
    /\ sweep_count = 0
    /\ stages = << >>
    /\ pts \in 1..(SplineOrder + 2)
    /\ bdwth = R(1)
    /\ sweep_up = TRUE
    /\ center_freq = R(0)
    /\ \E base \in Baselines, k \in 1..pts, height \in (-MaxPeak)..MaxPeak :
          in_inten = PeakOn(base, pts, k, height)
    /\ inten = in_inten
    /\ in_freq = Arr1(<< >>)
    /\ freq = in_freq
    /\ args = [NoArgs EXCEPT !.spline = TRUE]

NextSpline == WeightSpline \/ DbSpline

SpecSpline == InitSpline /\ [][NextSpline]_vars

\* the input rescaled to [0, 1], when it is not flat
RescaledInput(i) ==
    RDiv(RSub(in_inten.data[i], RMin(in_inten.data)),
         RSub(RMax(in_inten.data), RMin(in_inten.data)))

FlatInput == \A i \in 1..pts : in_inten.data[i] = in_inten.data[1]

\* C22: with r the input rescaled to [0, 1]: if median(r) > 0.9 the weight
\* is zero exactly at the samples with r < 0.9; if median(r) < 0.1 the weight
\* is zero exactly at the samples with r > 0.1; otherwise every weight is 1.
\* In both peak cases every retained sample has a nonzero weight, so the set
\* of nonzero-weight samples db_spline de-trends with is never empty.
C22_WeightSplineSymmetric ==
    (pc = "weighted" /\ ~FlatInput)
    => LET med == Median([i \in 1..pts |-> RescaledInput(i)])
       IN  /\ RLt(Rat(9, 10), med) =>
                \A i \in 1..pts :
                   (inten.data[i] = R(0)) <=> RLt(RescaledInput(i), Rat(9, 10))
           /\ RLt(med, Rat(1, 10)) =>
                \A i \in 1..pts :
                   (inten.data[i] = R(0)) <=> RLt(Rat(1, 10), RescaledInput(i))
           /\ (~RLt(Rat(9, 10), med) /\ ~RLt(med, Rat(1, 10))) =>
                \A i \in 1..pts : inten.data[i] = R(1)
           /\ \E i \in 1..pts : inten.data[i] # R(0)

\* C23: a wholly flat input is accepted by weight_spline: it returns,
\* without error, a weight array of the same length in which every weight
\* is 1.
C23_FlatInputUniformWeight ==
    FlatInput
    => /\ pc = "weighted" => inten = Arr1([i \in 1..pts |-> R(1)])
       /\ exc \notin {"ValueError", "TypeError"}

\* C23 happens: three equal samples get three weights of 1
C23_Witness ==
    /\ pc = "weighted"
    /\ in_inten = Arr1(<<R(0), R(0), R(0)>>)
    /\ inten = Arr1(<<R(1), R(1), R(1)>>)

-----------------------------------------------------------------------------
(* The derivative of the stitched waveform: db_diff of SweepPulse.py *)

\* np.diff on a 1-D sequence
Diff(s) == [i \in 1..(Len(s) - 1) |-> RSub(s[i + 1], s[i])]

\* db_diff pairing each difference with the frequency of its first sample
db_diff_left(f, a) ==
    [freq  |-> Arr1(PySlice(f.data, 0, -1)),
     inten |-> Arr1(Diff(a.data))]

\* db_diff: the pair (freq_diff, inten_diff)
db_diff(f, a) ==
    LET head == PySlice(f.data, 0, -1)
        half == [i \in 1..(Len(f.data) - 1) |-> RDiv(Diff(f.data)[i], R(2))]
    IN  [freq  |-> Arr1([i \in 1..Len(head) |-> RAdd(head[i], half[i])]),
         inten |-> Arr1(Diff(a.data))]

\* freq_out, inten_out = db_diff(freq_out, inten_out)
DbDiff ==
    /\ pc = "diff"
    /\ freq' = db_diff(freq, inten).freq
    /\ inten' = db_diff(freq, inten).inten
    /\ pc' = "differentiated"
    /\ UNCHANGED <<win_verified, typed, sweep_count, stages, setup, exc>>

\* the derivative starts from a 1-D waveform and its frequency axis
InitDiff ==
    /\ pc = "diff"
    /\ exc = ""
    /\ win_verified = 0
    /\ typed = NoTyped
    /\ sweep_count = 0
    /\ stages = << >>
    /\ pts \in 1..MaxPts
    /\ bdwth \in Bandwidths
    /\ sweep_up \in BOOLEAN
    /\ center_freq \in {R(0), R(5)}
    /\ \E pat \in Patterns : in_inten = InputArray(pat, 1, pts, 0, pts)
    /\ in_freq = reconstr_freq(center_freq, pts, sweep_up, bdwth)
    /\ inten = in_inten
    /\ freq = in_freq
    /\ args = NoArgs

NextDiff == DbDiff

SpecDiff == InitDiff /\ [][NextDiff]_vars

\* C25: db_diff(freq, inten) on arrays of length n >= 2 returns two arrays
\* of length n - 1 with inten_diff[i] = inten[i+1] - inten[i] and
\* freq_diff[i] = freq[i] + (freq[i+1] - freq[i])/2, the midpoint of the two
\* contributing samples.
C25_DbDiffMidpoint ==
    (pc = "differentiated" /\ pts >= 2)
    => /\ Shape0(freq) = pts - 1
       /\ Shape0(inten) = pts - 1
       /\ \A i \in 1..(pts - 1) :
             /\ inten.data[i] = RSub(in_inten.data[i + 1], in_inten.data[i])
             /\ freq.data[i] =
                   RAdd(in_freq.data[i],
                        RDiv(RSub(in_freq.data[i + 1], in_freq.data[i]), R(2)))
             /\ RMul(freq.data[i], R(2)) =
                   RAdd(in_freq.data[i], in_freq.data[i + 1])

\* C25 happens: three points from -1 to 1 give the midpoints -1/2 and 1/2
C25_Witness ==
    /\ pc = "differentiated"
    /\ in_freq = Arr1(<<R(-1), R(0), R(1)>>)
    /\ in_inten = Arr1(<<R(0), R(1), R(4)>>)
    /\ freq = Arr1(<<Rat(-1, 2), Rat(1, 2)>>)
    /\ inten = Arr1(<<R(1), R(3)>>)

-----------------------------------------------------------------------------
(* load_data: sweep count and direction, bandwidth and centres, the
   frequency axis, the extraction mode, the detector delay *)

\* np.count_nonzero(np.delete(lo*np.roll(lo, 1), 0) < 0)
CountCrossings(lo) ==
    Cardinality({i \in 2..Len(lo) : lo[i] * lo[i - 1] < 0})

\* the steps of a call that returned are added to the record; a call that
\* raised ends the run and leaves the data as it was
Logged(names) ==
    stages' = IF pc' = "error" THEN stages ELSE stages \o names

\* `if args.lo: ... else: sweep_num, sweep_up = interactive()', then
\* `pts = inten.shape[0] // sweep_num'
LoadSweeps ==
    /\ pc = "load"
    /\ LET num == IF args.lo # << >>
                  THEN CountCrossings(args.lo[1])
                  ELSE typed.sweep_num
           up  == IF args.lo # << >>
                  THEN args.lo[1][1] < 0
                  ELSE typed.sweep_up
       IN  /\ sweep_count' = num
           /\ sweep_up' = up
           /\ IF num = 0
              THEN /\ pc' = "error"
                   /\ exc' = "ZeroDivisionError"
                   /\ pts' = pts
              ELSE /\ pc' = "band"
                   /\ exc' = exc
                   /\ pts' = Shape0(inten) \div num
    /\ UNCHANGED <<args, center_freq, bdwth, inten, freq, in_inten, in_freq,
                   win_verified, typed, stages>>

\* `if args.bdwth: ... else: bdwth = 1.', then `if args.cf: ...': a float, or
\* the file of centres, whose first spacing is assigned to bdwth
LoadBand ==
    /\ pc = "band"
    /\ LET given == IF args.bdwth # << >> THEN args.bdwth[1] ELSE R(1)
       IN  IF args.cf = << >>
           THEN /\ center_freq' = R(0)
                /\ bdwth' = given
                /\ pc' = "direction"
                /\ exc' = exc
           ELSE IF ~IsArray(args.cf[1])
           THEN /\ center_freq' = args.cf[1]
                /\ bdwth' = given
                /\ pc' = "direction"
                /\ exc' = exc
           ELSE IF Shape0(args.cf[1]) < 2
           THEN /\ center_freq' = args.cf[1]
                /\ bdwth' = given
                /\ pc' = "error"
                /\ exc' = "IndexError"
           ELSE /\ center_freq' = args.cf[1]
                /\ bdwth' = RSub(args.cf[1].data[2], args.cf[1].data[1])
                /\ pc' = "direction"
                /\ exc' = exc
    /\ UNCHANGED <<args, pts, sweep_up, inten, freq, in_inten, in_freq,
                   win_verified, typed, sweep_count, stages>>

\* `if fg % 2: pass else: sweep_up = not sweep_up', then
\* `freq = reconstr_freq(center_freq, pts, sweep_up=sweep_up, bdwth=bdwth)'
LoadFreq ==
    /\ pc = "direction"
    /\ sweep_up' = IF FgOf(args) % 2 # 0 THEN sweep_up ELSE ~sweep_up
    /\ freq' = reconstr_freq(center_freq, pts, sweep_up', bdwth)
    /\ stages' = Append(stages, "reconstr_freq")
    /\ pc' = "mode"
    /\ UNCHANGED <<args, pts, center_freq, bdwth, inten, in_inten, in_freq,
                   exc, win_verified, typed, sweep_count>>

\* `if args.bg: ... extract_fg / sub_bg ... else: avg_inten'
LoadExtract ==
    /\ pc = "mode"
    /\ IF args.bg # << >>
       THEN IF FgOf(args) = args.bg[1]
            THEN /\ Finish(extract_fg(inten, FgOf(args), pts), "shift")
                 /\ Logged(<<"extract_fg">>)
            ELSE /\ Finish(sub_bg(inten, FgOf(args), args.bg[1], pts), "shift")
                 /\ Logged(<<"sub_bg">>)
       ELSE /\ Finish(IF pts = 0 THEN Raised("ZeroDivisionError")
                      ELSE avg_inten(inten, pts, FgOf(args)), "shift")
            /\ Logged(<<"avg_inten">>)
    /\ UNCHANGED <<setup, freq, win_verified, typed, sweep_count>>

\* `if args.delay: inten = delay_inten(..)', `if args.delay: freq, inten =
\* trunc(..)', `return freq, inten'
LoadDelay ==
    /\ pc = "shift"
    /\ IF args.delay = << >>
       THEN /\ pc' = "loaded"
            /\ UNCHANGED <<freq, inten, exc, stages>>
       ELSE LET r == trunc(freq, delay_inten(inten, args.delay[1]), args.delay[1])
            IN  /\ IF IsRaised(r)
                   THEN /\ pc' = "error"
                        /\ exc' = r.exc
                        /\ UNCHANGED <<freq, inten>>
                   ELSE /\ pc' = "loaded"
                        /\ freq' = r.freq
                        /\ inten' = r.inten
                        /\ exc' = exc
                /\ Logged(<<"delay_inten", "trunc">>)
    /\ UNCHANGED <<setup, win_verified, typed, sweep_count>>

\* LO traces: every sequence of up to MaxLo samples below, at or above zero
LoTraces == UNION {[1..n -> {-1, 0, 1}] : n \in 1..MaxLo}

\* the file of centres that goes with an intensity array of c columns
CentreFile(c) == Arr1([k \in 1..c |-> R(10 + 2 * k)])

\* what load_data starts from, before anything is assigned
Unloaded ==
    /\ pc = "load"
    /\ exc = ""
    /\ win_verified = 0
    /\ sweep_count = 0
    /\ stages = << >>
    /\ pts = 0
    /\ bdwth = R(1)
    /\ sweep_up = TRUE
    /\ center_freq = R(0)
    /\ freq = Arr1(<< >>)
    /\ in_freq = freq

\* runs that differ in what the user types and in the options of load_data
InitLoadTyped ==
    /\ Unloaded
    /\ \E s \in 1..MaxSweeps, up \in BOOLEAN :
          /\ typed = [sweep_num |-> s, sweep_up |-> up]
          /\ \E p \in 2..MaxPts, sh \in Shapes, pat \in {"zigzag", "square"},
                fg, bg \in {<< >>} \cup {<<k>> : k \in 1..MaxSweeps},
                bw \in {<< >>, <<R(3)>>}, d \in {<< >>, <<1>>} :
                /\ in_inten = InputArray(pat, sh.ndim, s * p, sh.ncols, p)
                /\ \E cf \in IF sh.ndim = 1 THEN {<< >>, <<R(5)>>}
                             ELSE {<<CentreFile(sh.ncols)>>} :
                      args = [NoArgs EXCEPT !.fg = fg, !.bg = bg, !.bdwth = bw,
                                            !.cf = cf, !.delay = d]
    /\ inten = in_inten

\* runs that differ in the LO trace
InitLoadLo ==
    /\ Unloaded
    /\ typed = NoTyped
    /\ \E lo \in LoTraces, s \in 1..MaxSweeps, p \in 2..MaxPts :
          /\ in_inten = InputArray("zigzag", 1, s * p, 0, p)
          /\ args = [NoArgs EXCEPT !.lo = <<lo>>]
    /\ inten = in_inten

InitLoad == InitLoadTyped \/ InitLoadLo

NextLoad == LoadSweeps \/ LoadBand \/ LoadFreq \/ LoadExtract \/ LoadDelay

SpecLoad == InitLoad /\ [][NextLoad]_vars

-----------------------------------------------------------------------------
(* Claims on load_data (specification SpecLoad) *)

\* the first sweep goes up, as the LO trace or the user says
FirstSweepUp ==
    IF args.lo # << >> THEN args.lo[1][1] < 0 ELSE typed.sweep_up

\* sample i of sweep k of the file, column c
InSweep(k, i, c) == At(in_inten, (k - 1) * pts + i, c)

\* C28: the frequency axis load_data builds runs in the physical direction
\* of the foreground sweep: ascending iff (first sweep goes up) XOR (fg is
\* even), for every fg and in all three modes, so that sample i of the
\* extracted or averaged foreground intensity is paired with the frequency
\* at which it was recorded.
C28_AxisFollowsForeground ==
    (/\ pc = "loaded"
     /\ args.delay = << >>
     /\ pts >= 2
     /\ Shape0(in_inten) = sweep_count * pts
     /\ FgOf(args) \in 1..sweep_count
     /\ args.bg # << >> => args.bg[1] \in 1..sweep_count)
    => LET fg == FgOf(args)
           ks == {k \in 1..sweep_count : k % 2 = fg % 2}
       IN  /\ Shape0(freq) = pts
           /\ Shape0(inten) = pts
           /\ \A c \in ColsOf(freq) :
                 RLt(At(freq, 1, c), At(freq, pts, c))
                    <=> (FirstSweepUp # (fg % 2 = 0))
           /\ \A i \in 1..pts : \A c \in ColsOf(in_inten) :
                 IF args.bg = << >>
                 THEN RMul(At(inten, i, c), R(Cardinality(ks))) =
                         SumOver(ks, i, c, R(0))
                 ELSE IF args.bg[1] = fg
                 THEN At(inten, i, c) = InSweep(fg, i, c)
                 ELSE At(inten, i, c) =
                         RSub(InSweep(fg, i, c),
                              InSweep(args.bg[1],
                                      IF (fg - args.bg[1]) % 2 = 0
                                      THEN i ELSE pts + 1 - i, c))

\* the LO samples that are not zero, in order
NonZero(lo) == SelectSeq(lo, LAMBDA v : v # 0)

\* C29: from an LO trace load_data derives sweep_count as the number of
\* zero-crossings, each counted once between consecutive samples (the pair
\* last/first is not counted; a crossing through a sample equal to 0 is
\* still counted once), and sweep_up as true iff the first LO sample is
\* negative; a derived sweep_count of 0 is never used as a divisor.
C29_SweepCountFromLo ==
    (args.lo # << >> /\ pc # "load")
    => /\ sweep_count = CountCrossings(NonZero(args.lo[1]))
       /\ pc = "band" => (sweep_up <=> args.lo[1][1] < 0)
       /\ exc # "ZeroDivisionError"

\* the bandwidth the options ask for
ResolvedBandwidth ==
    IF args.bdwth # << >> THEN args.bdwth[1]
    ELSE IF args.cf # << >> /\ IsArray(args.cf[1])
    THEN RSub(args.cf[1].data[2], args.cf[1].data[1])
    ELSE R(1)

\* C30: an explicitly supplied bandwidth is the one used to build the
\* frequency axis; the spacing of the first two band centres is used only
\* when no bandwidth is supplied and a list of centres is available; with
\* neither, the default 1.0 is used.
C30_BandwidthResolution ==
    /\ pc \in {"direction", "mode", "shift", "loaded"} => bdwth = ResolvedBandwidth
    /\ (pc = "mode" /\ pts >= 2) =>
          \A c \in ColsOf(freq) :
             RSub(At(freq, pts, c), At(freq, 1, c)) =
                (IF sweep_up THEN ResolvedBandwidth ELSE RNeg(ResolvedBandwidth))

-----------------------------------------------------------------------------
(* The main routine: load_data, proc_nb, flat_wave, proc_wb, save_output *)

\* the array went through a function the model does not compute
IsTerm(a) == "fn" \in DOMAIN a

\* a with the functions in names applied to it, uncomputed
Mark(a, names) ==
    [ndim |-> a.ndim, ncols |-> a.ncols, data |-> a.data,
     fn |-> (IF IsTerm(a) THEN a.fn ELSE << >>) \o names]

\* flat_wave on a 2-D frequency and a 2-D intensity that went through
\* db_spline: the flip and the flattening move samples, glue_sweep is added
\* to the functions applied
flat_wave_term(f, a) ==
    LET up_bool == RLt(f.data[1][1], f.data[Shape0(f)][1])
        f1 == IF up_bool THEN f ELSE flipud(f)
        a1 == IF up_bool THEN a ELSE flipud(a)
    IN  [freq  |-> FlattenF(f1),
         inten |-> Mark([FlattenF(a1) EXCEPT !.ndim = 1] @@ [fn |-> a.fn],
                        <<"glue_sweep">>)]

\* proc_wb that debaselines whatever the nobase flag says
proc_wb_always(y, opts, fault) ==
    IF IsTerm(y) THEN Mark(y, <<"db_poly">>) ELSE db_poly(y.data, fault)

\* proc_wb: y_db, or the exception raised
proc_wb(y, opts, fault) ==
    IF opts.nobase THEN y
    ELSE IF IsTerm(y)
    THEN IF ~opts.spline THEN Mark(y, <<"db_poly">>)
         ELSE IF Shape0(y) <= SplineOrder THEN Raised("dfitpack.error")
         ELSE Mark(y, <<"db_poly", "db_spline">>)
    ELSE LET y_db == db_poly(y.data, fault)
         IN  IF IsRaised(y_db) \/ ~opts.spline THEN y_db
             ELSE db_spline(y_db.data)

\* freq, inten = proc_nb(freq, inten, input_args)
MainProcNb ==
    /\ pc = "loaded"
    /\ \E fault \in {"nan", "raise"} :
          LET r == proc_nb(freq, inten, args, fault)
          IN  IF IsRaised(r)
              THEN /\ pc' = "error"
                   /\ exc' = r.exc
                   /\ UNCHANGED <<freq, inten>>
              ELSE /\ pc' = "sweeps_done"
                   /\ freq' = r.freq
                   /\ inten' = r.inten
                   /\ exc' = exc
    /\ Logged((IF args.box # << >> THEN <<"box_car">> ELSE << >>)
              \o (IF ~args.nobase THEN <<"proc_nb:db_poly">> ELSE << >>)
              \o (IF ~args.nobase /\ args.spline
                  THEN <<"proc_nb:db_spline">> ELSE << >>))
    /\ UNCHANGED <<setup, win_verified, typed, sweep_count>>

\* freq_flat, inten_flat = flat_wave(freq, inten, input_args.nobase)
MainFlatWave ==
    /\ pc = "sweeps_done"
    /\ stages' = stages
                 \o (IF inten.ndim = 2 /\ ~args.nobase
                     THEN <<"glue_sweep">> ELSE << >>)
                 \o <<"flat_wave">>
    /\ IF inten.ndim = 1
       THEN \E sort_index \in ArgSorts(freq.data) :
               /\ freq' = Arr1(Take(freq.data, sort_index))
               /\ inten' = [inten EXCEPT !.data = Take(inten.data, sort_index)]
       ELSE LET r == IF IsTerm(inten) THEN flat_wave_term(freq, inten)
                     ELSE flat_wave_2d(freq, inten, args.nobase)
            IN  /\ freq' = r.freq
                /\ inten' = r.inten
    /\ pc' = "stitched"
    /\ UNCHANGED <<setup, exc, win_verified, typed, sweep_count>>

\* inten_flat = proc_wb(freq_flat, inten_flat, input_args)
MainProcWb ==
    /\ pc = "stitched"
    /\ \E fault \in {"nan", "raise"} :
          Finish(proc_wb(inten, args, fault), "wide_done")
    /\ Logged((IF ~args.nobase THEN <<"proc_wb:db_poly">> ELSE << >>)
              \o (IF ~args.nobase /\ args.spline
                  THEN <<"proc_wb:db_spline">> ELSE << >>))
    /\ UNCHANGED <<setup, freq, win_verified, typed, sweep_count>>

\* save_output(np.column_stack((freq_flat, inten_flat)), input_args)
SaveOutput ==
    /\ pc = "wide_done"
    /\ IF Shape0(freq) = Shape0(inten)
       THEN pc' = "saved" /\ exc' = exc
       ELSE pc' = "error" /\ exc' = "ValueError"
    /\ UNCHANGED <<setup, freq, inten, win_verified, typed, sweep_count, stages>>

\* an intensity array of c columns, each the same peak on the same baseline
PeakColumns(base, n, k, height, c) ==
    Arr2([i \in 1..n |-> [j \in 1..c |-> PeakOn(base, n, k, height).data[i]]], c)

\* one sweep of a few points per band, every processing option
InitMainShort ==
    /\ Unloaded
    /\ \E up \in BOOLEAN : typed = [sweep_num |-> 1, sweep_up |-> up]
    /\ \E p \in 2..MaxPts, sh \in Shapes, pat \in Patterns :
          /\ in_inten = InputArray(pat, sh.ndim, p, sh.ncols, p)
          /\ \E box \in {<< >>, <<1>>, <<3>>}, nb, sp \in BOOLEAN,
                d \in {<< >>, <<1>>} :
                args = [NoArgs EXCEPT
                           !.cf = IF sh.ndim = 1 THEN <<R(5)>>
                                  ELSE <<CentreFile(sh.ncols)>>,
                           !.box = box, !.nobase = nb, !.spline = sp,
                           !.delay = d]
    /\ inten = in_inten

\* one sweep per band, long enough for the spline, with a peak or a dip
InitMainLong ==
    /\ Unloaded
    /\ \E up \in BOOLEAN : typed = [sweep_num |-> 1, sweep_up |-> up]
    /\ \E base \in Baselines, k \in 1..(SplineOrder + 1),
          height \in {-MaxPeak, 0, MaxPeak}, c \in 2..MaxBands :
          in_inten = PeakColumns(base, SplineOrder + 1, k, height, c)
    /\ args = [NoArgs EXCEPT !.cf = <<CentreFile(in_inten.ncols)>>,
                             !.spline = TRUE]
    /\ inten = in_inten

InitMain == InitMainShort \/ InitMainLong

NextMain == NextLoad \/ MainProcNb \/ MainFlatWave \/ MainProcWb \/ SaveOutput

SpecMain == InitMain /\ [][NextMain]_vars

\* the frequency array load_data returned in a run without detector delay
LoadedFreq == reconstr_freq(center_freq, pts, sweep_up, bdwth)

\* the stage was logged in this run
Ran(stage) == \E k \in 1..Len(stages) : stages[k] = stage

\* a run in no-baseline mode with no boxcar window and no detector delay
NoBaselineRun ==
    /\ args.nobase
    /\ args.box = << >>
    /\ args.delay = << >>
    /\ pts >= 2

\* C24: with nobase set and no boxcar window, proc_nb, flat_wave(nobase=True)
\* and proc_wb leave the values alone: what load_data returned goes through
\* proc_nb unchanged, and the stitched intensities and frequencies are the
\* input values, reordered only by the direction flip and the column-major
\* flattening; no polynomial, spline or glue shift is applied, in either
\* stage and with the spline flag set or not.
C24_NoBaselineOnlyReorders ==
    NoBaselineRun =>
       /\ pc \in {"loaded", "sweeps_done"} =>
             /\ inten = in_inten
             /\ freq = LoadedFreq
       /\ pc \in {"sweeps_done", "stitched", "wide_done", "saved"} =>
             /\ ~IsTerm(inten)
             /\ ~Ran("glue_sweep")
             /\ ~Ran("proc_nb:db_poly")
             /\ ~Ran("proc_wb:db_poly")
       /\ pc \in {"stitched", "wide_done", "saved"} =>
             IF in_inten.ndim = 2
             THEN /\ Shape0(freq) = pts * in_inten.ncols
                  /\ Shape0(inten) = pts * in_inten.ncols
                  /\ \A c \in 1..in_inten.ncols : \A i \in 1..pts :
                        /\ inten.data[FlatIndex(i, c)] =
                              in_inten.data[SourceRow(i)][c]
                        /\ freq.data[FlatIndex(i, c)] =
                              LoadedFreq.data[SourceRow(i)][c]
             ELSE /\ Shape0(freq) = pts
                  /\ Shape0(inten) = pts
                  /\ \A i \in 1..pts :
                        /\ inten.data[i] = in_inten.data[SourceRow(i)]
                        /\ freq.data[i] = LoadedFreq.data[SourceRow(i)]

\* C24 happens: two down-swept bands with distinct values, spline flag set,
\* are saved turned over and flattened
C24_Witness ==
    /\ pc = "saved"
    /\ NoBaselineRun
    /\ args.spline
    /\ ~sweep_up
    /\ in_inten.ndim = 2
    /\ in_inten.ncols = 2
    /\ in_inten.data[1][1] # in_inten.data[pts][1]
    /\ inten.data[1] = in_inten.data[pts][1]

\* the steps of load_data, of the per-sweep stage, of stitching, and of the
\* wideband stage, as they are recorded
LoadSteps == {"reconstr_freq", "extract_fg", "sub_bg", "avg_inten",
              "delay_inten", "trunc"}

PerSweepSteps == {"proc_nb:db_poly", "proc_nb:db_spline"}

StitchSteps == {"glue_sweep", "flat_wave"}

WidebandSteps == {"proc_wb:db_poly", "proc_wb:db_spline"}

\* extraction and delay correction, then per-sweep debaselining, then
\* stitching, then the wideband debaseliner
OtherStagesInOrder ==
    \A j, k \in 1..Len(stages) :
       /\ (stages[j] \in LoadSteps
           /\ stages[k] \in PerSweepSteps \cup StitchSteps \cup WidebandSteps
                            \cup {"box_car"}) => j < k
       /\ (stages[j] \in PerSweepSteps
           /\ stages[k] \in StitchSteps \cup WidebandSteps) => j < k
       /\ (stages[j] \in StitchSteps /\ stages[k] \in WidebandSteps) => j < k

\* the boxcar smoother runs after stitching and after per-sweep debaselining
BoxcarAfterStitching ==
    \A k \in 1..Len(stages) :
       stages[k] = "box_car" =>
          /\ \E j \in 1..(k - 1) : stages[j] = "flat_wave"
          /\ \A j \in 1..Len(stages) : stages[j] \in PerSweepSteps => j < k

\* C26: in every run extraction and delay correction come first, then
\* per-sweep debaselining, then stitching; the boxcar smoother, when a window
\* is given, runs only after stitching, with the wideband debaseliner, and
\* never before per-sweep debaselining or before stitching.
C26_BoxcarOnStitchedWaveform ==
    /\ OtherStagesInOrder
    /\ BoxcarAfterStitching

\* a run in polynomial+spline mode with no boxcar window and no detector delay
SplineRun ==
    /\ args.spline
    /\ ~args.nobase
    /\ args.box = << >>
    /\ args.delay = << >>

\* db_spline is handed u where v was due, and it matters: the two differ and
\* get different weights
ToldApart(u, v) == u # v /\ weight_spline(u) # weight_spline(v)

\* the last two functions applied to a
LastTwo(a) == SubSeq(a.fn, Len(a.fn) - 1, Len(a.fn))

\* C27: in polynomial+spline mode proc_nb composes db_poly and db_spline as
\* proc_wb does: what proc_nb returns is, column by column, db_spline applied
\* to the result of db_poly (degree 1) on that column, and what proc_wb
\* returns is db_spline applied to db_poly of the stitched waveform.
C27_SplineAfterPoly ==
    SplineRun =>
       /\ pc = "sweeps_done" =>
             /\ IsTerm(inten)
             /\ inten.fn = <<"db_spline">>
             /\ \A c \in 1..in_inten.ncols :
                   ~ToldApart(Column(inten, c),
                              db_poly(Column(in_inten, c), "nan").data)
       /\ pc = "wide_done" =>
             /\ IsTerm(inten)
             /\ LastTwo(inten) = <<"db_poly", "db_spline">>

=============================================================================
